---- MODULE Spec2Model ----
(***************************************************************************)
(* A model of the blog API: the express route handlers of the v1 and V2    *)
(* routers acting on the MongoDB collections (Blog, BlogV2, Comment,       *)
(* CommentV2, Category) through mongoose.  Handlers that read a document,  *)
(* decide in application memory and write back with save() are modelled    *)
(* as two steps with the loaded copy kept with the request in flight.      *)
(***************************************************************************)
EXTENDS Integers, Sequences, FiniteSets, Bags, TLC

VARIABLES
    variant,     \* router generation the deployment mounts: "v1" or "v2"
    blogs,       \* Blog collection (v1): id -> document
    blogsV2,     \* BlogV2 collection: id -> document
    comments,    \* Comment collection (v1): id -> document
    commentsV2,  \* CommentV2 collection: id -> document
    categories,  \* Category collection: id -> document
    nextId,      \* next fresh ObjectId of each collection
    inflight,    \* bag of requests that loaded a document and have not saved yet
    last,        \* the response sent last: request identity and status
    served,      \* per BlogV2 id: number of 200 answers of GET /:id
    registered   \* User collection as the register route sees it: documents in
                 \* insertion order

vars == <<variant, blogs, blogsV2, comments, commentsV2, categories, nextId,
          inflight, last, served, registered>>

----------------------------------------------------------------------------
(* Bounds of the model *)

MaxBlogs == 1
MaxViews == 2
MaxVersion == 2
MaxInflight == 2
MaxComments == 2
MaxCategories == 2
MaxThread == 3
MaxUsers == 2
MaxRequests == 3

----------------------------------------------------------------------------
(* Program constants *)

MinContentLen == 10
MinCommentLen == 5
MinPasswordLen == 6

----------------------------------------------------------------------------
(* Principals and credentials *)

Users == {"alice", "bob"}
NoUser == "nobody"

\* users.js: isAdmin defaults to false; bob's record has isAdmin = true
UserIsAdmin(u) == u = "bob"

\* A bearer credential: a valid token of a stored user, or one of the three
\* failure shapes (no Authorization header, expired token, malformed token).
Creds ==
    [kind : {"valid"}, user : Users]
    \cup [kind : {"absent", "expired", "malformed"}, user : {NoUser}]

\* passport JWT strategy: the verify callback resolves the user of the payload;
\* every other credential fails before it is called.
Authenticate(cred) ==
    IF cred.kind = "valid" /\ cred.user \in Users THEN cred.user ELSE NoUser

----------------------------------------------------------------------------
(* Request bodies *)

NoFile == "null"

BlogBodies ==
    { [title |-> "Hello", content |-> "0123456789", author |-> "bob",
       categories |-> {}, tags |-> {}, seoTitle |-> "Hello",
       views |-> 0, isPublished |-> "undefined", image |-> NoFile, file |-> NoFile],
      [title |-> "World", content |-> "9876543210", author |-> "alice",
       categories |-> {1}, tags |-> {"b"}, seoTitle |-> "World",
       views |-> 5, isPublished |-> "true", image |-> NoFile, file |-> "img.png"],
      [title |-> "", content |-> "short", author |-> "alice",
       categories |-> {}, tags |-> {"a"}, seoTitle |-> "",
       views |-> 0, isPublished |-> "false", image |-> NoFile, file |-> NoFile] }

\* express-validator chain of the V2 blog routes
ValidBlogBodyV2(body) ==
    /\ body.title # ""
    /\ Len(body.content) >= MinContentLen
    /\ body.seoTitle # ""

\* express-validator chain of the v1 blog routes
ValidBlogBody(body) ==
    /\ body.title # ""
    /\ Len(body.content) >= MinContentLen

\* mongoose Boolean cast of a body value; an undefined value unsets the path,
\* which reads back as the schema default false and does not match
\* { isPublished: true }
CastBoolean(v) == v = "true"

CommentBodies == { [text |-> "great post"], [text |-> "hi"] }

\* express-validator chain of the V2 comment routes: notEmpty, isLength({ min: 5 })
ValidCommentBodyV2(body) == body.text # "" /\ Len(body.text) >= MinCommentLen

\* express-validator chain of the v1 comment route: isLength({ min: 1 })
ValidCommentBody(body) == Len(body.text) >= 1

Undefined == "undefined"

CategoryBodies ==
    { [name |-> "news", description |-> "d"],
      [name |-> "tech", description |-> "d"],
      [name |-> Undefined, description |-> "updated"],
      [name |-> "", description |-> ""] }

\* express-validator chain of POST /categories: both fields notEmpty
ValidCategoryBody(body) ==
    /\ body.name \notin {Undefined, ""}
    /\ body.description \notin {Undefined, ""}

----------------------------------------------------------------------------
(* Responses *)

NoResponse == [api |-> "none", op |-> "none", user |-> NoUser, id |-> 0, status |-> 0]

Response(api, op, user, id, status) ==
    [api |-> api, op |-> op, user |-> user, id |-> id, status |-> status]

BlogIds == 1..MaxBlogs
CommentIds == 1..MaxComments
CategoryIds == 1..MaxCategories

----------------------------------------------------------------------------
(* State after construction: empty collections *)

Variants == {"v1", "v2"}

Init ==
    /\ variant \in Variants
    /\ blogs = <<>>
    /\ blogsV2 = <<>>
    /\ comments = <<>>
    /\ commentsV2 = <<>>
    /\ categories = <<>>
    /\ nextId = [blog |-> 1, blogV2 |-> 1, comment |-> 1, commentV2 |-> 1, category |-> 1,
                 request |-> 1]
    /\ inflight = EmptyBag
    /\ last = NoResponse
    /\ served = [b \in BlogIds |-> 0]
    /\ registered = <<>>

----------------------------------------------------------------------------
(* Faulty variants of operators of the model.  Each property below that is  *)
(* established is also checked to fail when the operator it depends on is   *)
(* replaced by its faulty variant.                                          *)

\* an ownership test that lets every principal through
AnyPrincipal(blog, user) == TRUE

\* an update that also takes the author from the body
UpdatedTakingAuthor(blog, body) ==
    [blog EXCEPT !.title = body.title, !.content = body.content,
                 !.author = body.author]

\* a fetch whose increment is lost
LostIncrement(blog) == blog

\* a membership test that never finds the user
NeverLiked(likes, user) == FALSE

\* an admin test that only asks for an authenticated principal
AuthenticatedOnly(user) == user # NoUser

\* a delete that leaves the replies lists alone
PullNothing(cs, cid) == cs

\* a reply creation that forgets to attach the reply to its parent
ForgetReply(comment, rid) == comment

\* a creation that has not written the comment record when it goes on
PersistLater(cs, cid, doc) == cs

\* a User collection without its unique indexes
NoUniqueIndex(store, doc) == TRUE

\* a save that writes the likes as the array holding the new like alone
ReplaceLikes(blog, user) ==
    [blog EXCEPT !.likes = <<user>>, !.version = @ + 1]

\* a publish that stores a fresh published document
PublishedAfresh(blog) == [blog EXCEPT !.isPublished = TRUE, !.views = 0]

\* one message for every failure
GenericMessage(info) == "Unauthorized access. Please log in."

\* a delete that removes nothing
RemoveNothing(f, id) == f

\* a save that writes the comments as the array holding the new id alone
OverwriteComments(blog, cid) ==
    [blog EXCEPT !.comments = <<cid>>, !.version = @ + 1]

\* a filter that keeps every element
KeepLikes(likes, user) == likes

\* a blog document built from the whole request body
NewBlogFromBody(body, author, image) ==
    [title |-> body.title, content |-> body.content, author |-> body.author,
     image |-> image, comments |-> <<>>, views |-> body.views,
     isPublished |-> CastBoolean(body.isPublished),
     categories |-> body.categories, tags |-> body.tags,
     seoTitle |-> body.seoTitle, likes |-> <<>>, version |-> 0]

----------------------------------------------------------------------------
(* BlogV2 routes: src/routes/blogRoutesV2.js *)

\* new BlogV2({ title, content, author, image, categories, tags, seo... }) with
\* the schema defaults of blogSchemaV2
NewBlogV2(body, author, image) ==
    [title |-> body.title, content |-> body.content, author |-> author,
     image |-> image, comments |-> <<>>, views |-> 0, isPublished |-> FALSE,
     categories |-> body.categories, tags |-> body.tags,
     seoTitle |-> body.seoTitle, likes |-> <<>>, version |-> 0]

\* blog.author.toString() !== req.user._id.toString()
IsOwner(blog, user) == blog.author = user

\* the filter { _id: blogId, isPublished: true } of GET /:id
FetchFilterV2(blog) == blog.isPublished

\* { $inc: { views: 1 } }
IncViews(blog) == [blog EXCEPT !.views = @ + 1]

\* the assignments of PUT /:id before blog.save(); seoDescription and
\* seoKeywords are assigned like seoTitle
UpdatedBlogV2(blog, body) ==
    [blog EXCEPT !.title = body.title, !.content = body.content,
                 !.categories = body.categories, !.tags = body.tags,
                 !.seoTitle = body.seoTitle,
                 !.image = IF body.file # NoFile THEN body.file ELSE @]

\* blog.likes.includes(userId)
IsLiked(likes, user) == \E i \in 1..Len(likes) : likes[i] = user

\* blog.likes.push(userId); blog.save(): mongoose sends $push of the new
\* element and $inc of the version key, with no version in the filter
PushLike(blog, user) ==
    [blog EXCEPT !.likes = Append(@, user), !.version = @ + 1]

\* blog.likes.filter(userId => userId.toString() !== req.user._id.toString())
FilterLikes(likes, user) == SelectSeq(likes, LAMBDA u : u # user)

Remove(f, id) == [b \in DOMAIN f \ {id} |-> f[b]]

Store == <<blogs, blogsV2, nextId, served>>
Other == <<comments, commentsV2, categories, registered>>

\* the blog routes of either generation leave the other collections alone
V2 == variant = "v2" /\ UNCHANGED <<variant, Other>>
V1 == variant = "v1" /\ UNCHANGED <<variant, Other>>

\* POST / : passport.authenticate, validators, new BlogV2(...).save()
CreateBlogV2(cred, body) ==
    LET user == Authenticate(cred)
        id == nextId.blogV2
    IN  /\ V2
        /\ inflight' = inflight
        /\ IF user = NoUser
           THEN /\ last' = Response("v2", "create", user, 0, 401)
                /\ UNCHANGED Store
           ELSE IF ~ValidBlogBodyV2(body)
           THEN /\ last' = Response("v2", "create", user, 0, 400)
                /\ UNCHANGED Store
           ELSE /\ id <= MaxBlogs
                /\ blogsV2' = blogsV2 @@ (id :> NewBlogV2(body, user, body.file))
                /\ nextId' = [nextId EXCEPT !.blogV2 = id + 1]
                /\ last' = Response("v2", "create", user, id, 201)
                /\ UNCHANGED <<blogs, served>>

\* GET /:id : findOneAndUpdate({ _id, isPublished: true }, { $inc: { views: 1 } })
GetBlogV2(id) ==
    /\ V2
    /\ inflight' = inflight
    /\ IF id \in DOMAIN blogsV2 /\ FetchFilterV2(blogsV2[id])
       THEN /\ blogsV2[id].views < MaxViews
            /\ blogsV2' = [blogsV2 EXCEPT ![id] = IncViews(@)]
            /\ served' = [served EXCEPT ![id] = @ + 1]
            /\ last' = Response("v2", "get", NoUser, id, 200)
            /\ UNCHANGED <<blogs, nextId>>
       ELSE /\ last' = Response("v2", "get", NoUser, id, 404)
            /\ UNCHANGED Store

\* blog.isPublished = true; blog.save(): the one path assigned is written
Published(blog) == [blog EXCEPT !.isPublished = TRUE]

\* PUT /:id/publish
PublishBlogV2(cred, id) ==
    LET user == Authenticate(cred)
    IN  /\ V2
        /\ inflight' = inflight
        /\ UNCHANGED <<blogs, nextId, served>>
        /\ IF user = NoUser
           THEN last' = Response("v2", "publish", user, id, 401) /\ UNCHANGED blogsV2
           ELSE IF id \notin DOMAIN blogsV2
           THEN last' = Response("v2", "publish", user, id, 404) /\ UNCHANGED blogsV2
           ELSE IF ~IsOwner(blogsV2[id], user)
           THEN last' = Response("v2", "publish", user, id, 401) /\ UNCHANGED blogsV2
           ELSE /\ blogsV2' = [blogsV2 EXCEPT ![id] = Published(@)]
                /\ last' = Response("v2", "publish", user, id, 200)

\* PUT /:id
UpdateBlogV2(cred, id, body) ==
    LET user == Authenticate(cred)
    IN  /\ V2
        /\ inflight' = inflight
        /\ UNCHANGED <<blogs, nextId, served>>
        /\ IF user = NoUser
           THEN last' = Response("v2", "update", user, id, 401) /\ UNCHANGED blogsV2
           ELSE IF ~ValidBlogBodyV2(body)
           THEN last' = Response("v2", "update", user, id, 400) /\ UNCHANGED blogsV2
           ELSE IF id \notin DOMAIN blogsV2
           THEN last' = Response("v2", "update", user, id, 404) /\ UNCHANGED blogsV2
           ELSE IF ~IsOwner(blogsV2[id], user)
           THEN last' = Response("v2", "update", user, id, 401) /\ UNCHANGED blogsV2
           ELSE /\ blogsV2' = [blogsV2 EXCEPT ![id] = UpdatedBlogV2(@, body)]
                /\ last' = Response("v2", "update", user, id, 200)

\* DELETE /:id
DeleteBlogV2(cred, id) ==
    LET user == Authenticate(cred)
    IN  /\ V2
        /\ inflight' = inflight
        /\ UNCHANGED <<blogs, nextId, served>>
        /\ IF user = NoUser
           THEN last' = Response("v2", "delete", user, id, 401) /\ UNCHANGED blogsV2
           ELSE IF id \notin DOMAIN blogsV2
           THEN last' = Response("v2", "delete", user, id, 404) /\ UNCHANGED blogsV2
           ELSE IF ~IsOwner(blogsV2[id], user)
           THEN last' = Response("v2", "delete", user, id, 403) /\ UNCHANGED blogsV2
           ELSE /\ blogsV2' = Remove(blogsV2, id)
                /\ last' = Response("v2", "delete", user, id, 200)

\* POST /:id/like, up to `await BlogV2.findById(req.params.id).exec()`
LikeLoadV2(cred, id) ==
    LET user == Authenticate(cred)
    IN  /\ V2
        /\ UNCHANGED Store
        /\ IF user = NoUser
           THEN last' = Response("v2", "like", user, id, 401) /\ inflight' = inflight
           ELSE IF id \notin DOMAIN blogsV2
           THEN last' = Response("v2", "like", user, id, 404) /\ inflight' = inflight
           ELSE /\ BagCardinality(inflight) < MaxInflight
                /\ blogsV2[id].version < MaxVersion
                /\ inflight' = inflight (+) SetToBag({[op |-> "like", user |-> user,
                                  id |-> id, likes |-> blogsV2[id].likes,
                                  version |-> blogsV2[id].version, comment |-> 0]})
                /\ last' = last

\* POST /:id/like, from the membership test on the loaded copy to the response
LikeSaveV2(r) ==
    /\ V2
    /\ BagIn(r, inflight)
    /\ r.op = "like"
    /\ inflight' = inflight (-) SetToBag({r})
    /\ UNCHANGED <<blogs, nextId, served>>
    /\ IF IsLiked(r.likes, r.user)
       THEN last' = Response("v2", "like", r.user, r.id, 400) /\ UNCHANGED blogsV2
       ELSE IF r.id \notin DOMAIN blogsV2
       THEN last' = Response("v2", "like", r.user, r.id, 500) /\ UNCHANGED blogsV2
       ELSE /\ blogsV2' = [blogsV2 EXCEPT ![r.id] = PushLike(@, r.user)]
            /\ last' = Response("v2", "like", r.user, r.id, 200)

\* POST /:id/unlike, up to `await BlogV2.findById(req.params.id).exec()`
UnlikeLoadV2(cred, id) ==
    LET user == Authenticate(cred)
    IN  /\ V2
        /\ UNCHANGED Store
        /\ IF user = NoUser
           THEN last' = Response("v2", "unlike", user, id, 401) /\ inflight' = inflight
           ELSE IF id \notin DOMAIN blogsV2
           THEN last' = Response("v2", "unlike", user, id, 404) /\ inflight' = inflight
           ELSE /\ BagCardinality(inflight) < MaxInflight
                /\ blogsV2[id].version < MaxVersion
                /\ inflight' = inflight (+) SetToBag({[op |-> "unlike", user |-> user,
                                  id |-> id, likes |-> blogsV2[id].likes,
                                  version |-> blogsV2[id].version, comment |-> 0]})
                /\ last' = last

\* POST /:id/unlike, from the membership test to the response: assigning the
\* filtered array makes save() send $set of the whole array with the loaded
\* version in the filter; a changed version or a deleted blog fails the save
UnlikeSaveV2(r) ==
    /\ V2
    /\ BagIn(r, inflight)
    /\ r.op = "unlike"
    /\ inflight' = inflight (-) SetToBag({r})
    /\ UNCHANGED <<blogs, nextId, served>>
    /\ IF ~IsLiked(r.likes, r.user)
       THEN last' = Response("v2", "unlike", r.user, r.id, 200) /\ UNCHANGED blogsV2
       ELSE IF r.id \notin DOMAIN blogsV2 \/ blogsV2[r.id].version # r.version
       THEN last' = Response("v2", "unlike", r.user, r.id, 500) /\ UNCHANGED blogsV2
       ELSE /\ blogsV2' = [blogsV2 EXCEPT ![r.id].likes = FilterLikes(r.likes, r.user),
                                          ![r.id].version = @ + 1]
            /\ last' = Response("v2", "unlike", r.user, r.id, 200)

\* the array paths of the update: assigning a different array makes save()
\* send $set of the whole array, put the loaded version in the filter and
\* increment the version
ArraysModified(doc, body) ==
    body.categories # doc.categories \/ body.tags # doc.tags

\* blog.save() of PUT /:id applied to the stored document: mongoose writes
\* the paths whose assigned value differs from the loaded one and no other
SavedUpdateV2(stored, doc, body) ==
    LET upd == UpdatedBlogV2(doc, body)
    IN  [stored EXCEPT
            !.title = IF upd.title # doc.title THEN upd.title ELSE @,
            !.content = IF upd.content # doc.content THEN upd.content ELSE @,
            !.categories = IF upd.categories # doc.categories THEN upd.categories ELSE @,
            !.tags = IF upd.tags # doc.tags THEN upd.tags ELSE @,
            !.seoTitle = IF upd.seoTitle # doc.seoTitle THEN upd.seoTitle ELSE @,
            !.image = IF upd.image # doc.image THEN upd.image ELSE @,
            !.version = IF ArraysModified(doc, body) THEN @ + 1 ELSE @]

\* PUT /:id, up to `await BlogV2.findById(req.params.id).exec()` and the
\* author check on the loaded document
UpdateLoadV2(cred, id, body) ==
    LET user == Authenticate(cred)
    IN  /\ V2
        /\ UNCHANGED Store
        /\ IF user = NoUser
           THEN last' = Response("v2", "update", user, id, 401) /\ inflight' = inflight
           ELSE IF ~ValidBlogBodyV2(body)
           THEN last' = Response("v2", "update", user, id, 400) /\ inflight' = inflight
           ELSE IF id \notin DOMAIN blogsV2
           THEN last' = Response("v2", "update", user, id, 404) /\ inflight' = inflight
           ELSE IF ~IsOwner(blogsV2[id], user)
           THEN last' = Response("v2", "update", user, id, 401) /\ inflight' = inflight
           ELSE /\ BagCardinality(inflight) < MaxInflight
                /\ blogsV2[id].version < MaxVersion
                /\ inflight' = inflight (+) SetToBag({[op |-> "update", user |-> user,
                                  id |-> id, body |-> body, doc |-> blogsV2[id]]})
                /\ last' = last

\* PUT /:id, from the assignments to the response: a deleted blog or, when an
\* array path is written, a changed version fails the save; a save with no
\* modified path writes nothing
UpdateSaveV2(r) ==
    /\ V2
    /\ BagIn(r, inflight)
    /\ r.op = "update"
    /\ inflight' = inflight (-) SetToBag({r})
    /\ UNCHANGED <<blogs, nextId, served>>
    /\ IF r.id \notin DOMAIN blogsV2
       THEN /\ \E status \in IF UpdatedBlogV2(r.doc, r.body) # r.doc THEN {500} ELSE {200, 500} :
                  last' = Response("v2", "update", r.user, r.id, status)
            /\ UNCHANGED blogsV2
       ELSE IF ArraysModified(r.doc, r.body) /\ blogsV2[r.id].version # r.doc.version
       THEN last' = Response("v2", "update", r.user, r.id, 500) /\ UNCHANGED blogsV2
       ELSE /\ blogsV2' = [blogsV2 EXCEPT ![r.id] = SavedUpdateV2(@, r.doc, r.body)]
            /\ last' = Response("v2", "update", r.user, r.id, 200)

----------------------------------------------------------------------------
(* Blog routes (v1): src/routes/blogRoutes.js lines 1-402 *)

\* new Blog({ title, content, author, image }) with the schema defaults
NewBlog(body, author, image) ==
    [title |-> body.title, content |-> body.content, author |-> author,
     image |-> image, comments |-> <<>>, views |-> 0, isPublished |-> FALSE]

\* the filter { _id: req.params.id } of GET /:id
FetchFilter(blog) == TRUE

\* the assignments of PUT /:id before blog.save()
UpdatedBlog(blog, body) ==
    LET image == IF body.file # NoFile THEN body.file ELSE body.image
    IN  [blog EXCEPT !.title = body.title, !.content = body.content,
                     !.isPublished = CastBoolean(body.isPublished),
                     !.image = IF image # NoFile THEN image ELSE @]

\* POST /
CreateBlog(cred, body) ==
    LET user == Authenticate(cred)
        id == nextId.blog
    IN  /\ V1
        /\ inflight' = inflight
        /\ IF user = NoUser
           THEN /\ last' = Response("v1", "create", user, 0, 401)
                /\ UNCHANGED Store
           ELSE IF ~ValidBlogBody(body)
           THEN /\ last' = Response("v1", "create", user, 0, 400)
                /\ UNCHANGED Store
           ELSE /\ id <= MaxBlogs
                /\ blogs' = blogs @@ (id :> NewBlog(body, user, body.file))
                /\ nextId' = [nextId EXCEPT !.blog = id + 1]
                /\ last' = Response("v1", "create", user, id, 201)
                /\ UNCHANGED <<blogsV2, served>>

\* GET /:id : findOneAndUpdate({ _id }, { $inc: { views: 1 } })
GetBlog(id) ==
    /\ V1
    /\ inflight' = inflight
    /\ IF id \in DOMAIN blogs /\ FetchFilter(blogs[id])
       THEN /\ blogs[id].views < MaxViews
            /\ blogs' = [blogs EXCEPT ![id] = IncViews(@)]
            /\ served' = [served EXCEPT ![id] = @ + 1]
            /\ last' = Response("v1", "get", NoUser, id, 200)
            /\ UNCHANGED <<blogsV2, nextId>>
       ELSE /\ last' = Response("v1", "get", NoUser, id, 404)
            /\ UNCHANGED Store

\* PUT /:id/publish
PublishBlog(cred, id) ==
    LET user == Authenticate(cred)
    IN  /\ V1
        /\ inflight' = inflight
        /\ UNCHANGED <<blogsV2, nextId, served>>
        /\ IF user = NoUser
           THEN last' = Response("v1", "publish", user, id, 401) /\ UNCHANGED blogs
           ELSE IF id \notin DOMAIN blogs
           THEN last' = Response("v1", "publish", user, id, 404) /\ UNCHANGED blogs
           ELSE IF ~IsOwner(blogs[id], user)
           THEN last' = Response("v1", "publish", user, id, 403) /\ UNCHANGED blogs
           ELSE /\ blogs' = [blogs EXCEPT ![id] = Published(@)]
                /\ last' = Response("v1", "publish", user, id, 200)

\* PUT /:id
UpdateBlog(cred, id, body) ==
    LET user == Authenticate(cred)
    IN  /\ V1
        /\ inflight' = inflight
        /\ UNCHANGED <<blogsV2, nextId, served>>
        /\ IF user = NoUser
           THEN last' = Response("v1", "update", user, id, 401) /\ UNCHANGED blogs
           ELSE IF ~ValidBlogBody(body)
           THEN last' = Response("v1", "update", user, id, 400) /\ UNCHANGED blogs
           ELSE IF id \notin DOMAIN blogs
           THEN last' = Response("v1", "update", user, id, 404) /\ UNCHANGED blogs
           ELSE IF ~IsOwner(blogs[id], user)
           THEN last' = Response("v1", "update", user, id, 403) /\ UNCHANGED blogs
           ELSE /\ blogs' = [blogs EXCEPT ![id] = UpdatedBlog(@, body)]
                /\ last' = Response("v1", "update", user, id, 200)

\* DELETE /:id
DeleteBlog(cred, id) ==
    LET user == Authenticate(cred)
    IN  /\ V1
        /\ inflight' = inflight
        /\ UNCHANGED <<blogsV2, nextId, served>>
        /\ IF user = NoUser
           THEN last' = Response("v1", "delete", user, id, 401) /\ UNCHANGED blogs
           ELSE IF id \notin DOMAIN blogs
           THEN last' = Response("v1", "delete", user, id, 404) /\ UNCHANGED blogs
           ELSE IF ~IsOwner(blogs[id], user)
           THEN last' = Response("v1", "delete", user, id, 403) /\ UNCHANGED blogs
           ELSE /\ blogs' = Remove(blogs, id)
                /\ last' = Response("v1", "delete", user, id, 200)

----------------------------------------------------------------------------
(* CommentV2 routes: src/routes/commentRoutesV2.js, mounted by blogRouterV2   *)
(* under /:blogId/comments; src/unnamed/part_005 is the revision of the same  *)
(* file whose create routes run passport.authenticate first.  The database    *)
(* outlives a deployment, so both revisions are requests of generation v2.    *)

\* new CommentV2({ text, author })
NewCommentV2(text, author) == [text |-> text, author |-> author, replies |-> <<>>]

\* commentSchemaV2, validated by save(): text minlength 5, author required
ValidCommentV2(doc) == Len(doc.text) >= MinCommentLen /\ doc.author # NoUser

\* req.user as the create handlers see it: only passport.authenticate sets it,
\* and the routes of commentRoutesV2.js run no authentication middleware
RequestUser(auth, cred) == IF auth THEN Authenticate(cred) ELSE NoUser

\* isAdmin middleware: req.isAuthenticated() && req.user.isAdmin
IsAdmin(user) == user # NoUser /\ UserIsAdmin(user)

\* await comment.save() of a new document: the insert into the collection
Persist(cs, cid, doc) == cs @@ (cid :> doc)

\* req.blog.comments.push(comment._id); req.blog.save(): $push and $inc of the
\* version key
PushComment(blog, cid) ==
    [blog EXCEPT !.comments = Append(@, cid), !.version = @ + 1]

\* req.comment.replies.push(reply._id); req.comment.save()
PushReply(comment, rid) == [comment EXCEPT !.replies = Append(@, rid)]

\* BlogV2.updateMany({ comments: commentId }, { $pull: { comments: commentId } })
PullFromBlogs(bs, cid) ==
    [b \in DOMAIN bs |-> [bs[b] EXCEPT !.comments = SelectSeq(@, LAMBDA c : c # cid)]]

\* CommentV2.updateMany({ replies: commentId }, { $pull: { replies: commentId } })
PullFromReplies(cs, cid) ==
    [c \in DOMAIN cs |-> [cs[c] EXCEPT !.replies = SelectSeq(@, LAMBDA r : r # cid)]]

InflightRecord(op, user, id, likes, version, comment) ==
    [op |-> op, user |-> user, id |-> id, likes |-> likes, version |-> version,
     comment |-> comment]

\* POST / up to `await comment.save()`; auth tells the revision
CommentStartV2(auth, cred, blogId, body) ==
    LET user == RequestUser(auth, cred)
        cid == nextId.commentV2
        doc == NewCommentV2(body.text, user)
    IN  /\ variant = "v2"
        /\ UNCHANGED <<variant, registered, blogs, blogsV2, comments, categories, served>>
        /\ IF blogId \notin DOMAIN blogsV2
           THEN /\ last' = Response("v2", "comment", user, blogId, 404)
                /\ UNCHANGED <<commentsV2, nextId, inflight>>
           ELSE IF auth /\ user = NoUser
           THEN /\ last' = Response("v2", "comment", user, blogId, 401)
                /\ UNCHANGED <<commentsV2, nextId, inflight>>
           ELSE IF ~ValidCommentBodyV2(body)
           THEN /\ last' = Response("v2", "comment", user, blogId, 400)
                /\ UNCHANGED <<commentsV2, nextId, inflight>>
           ELSE IF ~ValidCommentV2(doc)
           THEN /\ last' = Response("v2", "comment", user, blogId, 500)
                /\ UNCHANGED <<commentsV2, nextId, inflight>>
           ELSE /\ cid <= MaxThread
                /\ BagCardinality(inflight) < MaxInflight
                /\ commentsV2' = Persist(commentsV2, cid, doc)
                /\ nextId' = [nextId EXCEPT !.commentV2 = cid + 1]
                /\ inflight' = inflight (+)
                       SetToBag({InflightRecord("comment", user, blogId, <<>>, 0, cid)})
                /\ last' = last

\* POST / from the push onto req.blog.comments to the response
CommentFinishV2(r) ==
    /\ variant = "v2"
    /\ BagIn(r, inflight)
    /\ r.op = "comment"
    /\ inflight' = inflight (-) SetToBag({r})
    /\ UNCHANGED <<variant, registered, blogs, comments, commentsV2, categories, nextId, served>>
    /\ IF r.id \notin DOMAIN blogsV2
       THEN last' = Response("v2", "comment", r.user, r.id, 500) /\ UNCHANGED blogsV2
       ELSE /\ blogsV2' = [blogsV2 EXCEPT ![r.id] = PushComment(@, r.comment)]
            /\ last' = Response("v2", "comment", r.user, r.id, 201)

\* POST /:commentId/replies up to `await reply.save()`
ReplyStartV2(auth, cred, blogId, commentId, body) ==
    LET user == RequestUser(auth, cred)
        rid == nextId.commentV2
        doc == NewCommentV2(body.text, user)
    IN  /\ variant = "v2"
        /\ UNCHANGED <<variant, registered, blogs, blogsV2, comments, categories, served>>
        /\ IF blogId \notin DOMAIN blogsV2 \/ commentId \notin DOMAIN commentsV2
           THEN /\ last' = Response("v2", "reply", user, commentId, 404)
                /\ UNCHANGED <<commentsV2, nextId, inflight>>
           ELSE IF auth /\ user = NoUser
           THEN /\ last' = Response("v2", "reply", user, commentId, 401)
                /\ UNCHANGED <<commentsV2, nextId, inflight>>
           ELSE IF ~ValidCommentBodyV2(body)
           THEN /\ last' = Response("v2", "reply", user, commentId, 400)
                /\ UNCHANGED <<commentsV2, nextId, inflight>>
           ELSE IF ~ValidCommentV2(doc)
           THEN /\ last' = Response("v2", "reply", user, commentId, 500)
                /\ UNCHANGED <<commentsV2, nextId, inflight>>
           ELSE /\ rid <= MaxThread
                /\ BagCardinality(inflight) < MaxInflight
                /\ commentsV2' = Persist(commentsV2, rid, doc)
                /\ nextId' = [nextId EXCEPT !.commentV2 = rid + 1]
                /\ inflight' = inflight (+)
                       SetToBag({InflightRecord("reply", user, commentId, <<>>, 0, rid)})
                /\ last' = last

\* POST /:commentId/replies from the push onto req.comment.replies to the response
ReplyFinishV2(r) ==
    /\ variant = "v2"
    /\ BagIn(r, inflight)
    /\ r.op = "reply"
    /\ inflight' = inflight (-) SetToBag({r})
    /\ UNCHANGED <<variant, registered, blogs, blogsV2, comments, categories, nextId, served>>
    /\ IF r.id \notin DOMAIN commentsV2
       THEN last' = Response("v2", "reply", r.user, r.id, 500) /\ UNCHANGED commentsV2
       ELSE /\ commentsV2' = [commentsV2 EXCEPT ![r.id] = PushReply(@, r.comment)]
            /\ last' = Response("v2", "reply", r.user, r.id, 201)

\* DELETE /:commentId : param middlewares, customPassportAuth, isAdmin,
\* findByIdAndDelete and the two updateMany
DeleteCommentV2(cred, blogId, commentId) ==
    LET user == Authenticate(cred)
    IN  /\ variant = "v2"
        /\ UNCHANGED <<variant, registered, blogs, comments, categories, nextId, inflight, served>>
        /\ IF blogId \notin DOMAIN blogsV2 \/ commentId \notin DOMAIN commentsV2
           THEN /\ last' = Response("v2", "deleteComment", user, commentId, 404)
                /\ UNCHANGED <<blogsV2, commentsV2>>
           ELSE IF user = NoUser
           THEN /\ last' = Response("v2", "deleteComment", user, commentId, 401)
                /\ UNCHANGED <<blogsV2, commentsV2>>
           ELSE IF ~IsAdmin(user)
           THEN /\ last' = Response("v2", "deleteComment", user, commentId, 403)
                /\ UNCHANGED <<blogsV2, commentsV2>>
           ELSE /\ commentsV2' = PullFromReplies(Remove(commentsV2, commentId), commentId)
                /\ blogsV2' = PullFromBlogs(blogsV2, commentId)
                /\ last' = Response("v2", "deleteComment", user, commentId, 200)

----------------------------------------------------------------------------
(* Comment routes (v1): src/routes/commentRoutes.js lines 1-195 *)

\* new Comments({ text, blog }): CommentSchema has no path blog, so strict mode
\* drops it, and the handler sets no author
NewComment(text) == [text |-> text, author |-> NoUser]

\* CommentSchema, validated by save(): text minlength 5, author required
ValidComment(doc) == Len(doc.text) >= MinCommentLen /\ doc.author # NoUser

\* POST /:blogId
CreateComment(cred, blogId, body) ==
    LET cid == nextId.comment
        doc == NewComment(body.text)
    IN  /\ variant = "v1"
        /\ UNCHANGED <<variant, registered, blogsV2, commentsV2, categories, inflight, served>>
        /\ IF blogId \notin DOMAIN blogs
           THEN /\ last' = Response("v1", "comment", NoUser, blogId, 404)
                /\ UNCHANGED <<blogs, comments, nextId>>
           ELSE IF ~ValidCommentBody(body)
           THEN /\ last' = Response("v1", "comment", NoUser, blogId, 400)
                /\ UNCHANGED <<blogs, comments, nextId>>
           ELSE IF ~ValidComment(doc)
           THEN /\ last' = Response("v1", "comment", NoUser, blogId, 500)
                /\ UNCHANGED <<blogs, comments, nextId>>
           ELSE /\ cid <= MaxComments
                /\ comments' = comments @@ (cid :> doc)
                /\ nextId' = [nextId EXCEPT !.comment = cid + 1]
                /\ blogs' = [blogs EXCEPT ![blogId].comments = Append(@, cid)]
                /\ last' = Response("v1", "comment", NoUser, blogId, 201)

\* POST /:blogId of the first revision (lines 300-318): the author is a field
\* of the body, and no blog is looked up or written
CreateCommentLegacy(blogId, body, author) ==
    LET cid == nextId.comment
        doc == [text |-> body.text, author |-> author]
    IN  /\ variant = "v1"
        /\ UNCHANGED <<variant, registered, blogs, blogsV2, commentsV2, categories, inflight, served>>
        /\ IF ~ValidCommentBody(body) \/ author = NoUser
           THEN /\ last' = Response("v1", "commentLegacy", NoUser, blogId, 400)
                /\ UNCHANGED <<comments, nextId>>
           ELSE IF ~ValidComment(doc)
           THEN /\ last' = Response("v1", "commentLegacy", NoUser, blogId, 500)
                /\ UNCHANGED <<comments, nextId>>
           ELSE /\ cid <= MaxComments
                /\ comments' = comments @@ (cid :> doc)
                /\ nextId' = [nextId EXCEPT !.comment = cid + 1]
                /\ last' = Response("v1", "commentLegacy", NoUser, blogId, 201)

\* Blog.updateOne({ _id: req.comment.blog }, { $pull: { comments: id } }): the
\* stored comment has no blog, and a filter on an undefined _id matches no
\* document or the first one of the collection, depending on the mongoose
\* release
PullFromBlog(bs, cid) ==
    {bs} \cup { [bs EXCEPT ![b].comments = SelectSeq(@, LAMBDA c : c # cid)] :
                b \in DOMAIN bs }

\* DELETE /:commentId
DeleteComment(cred, commentId) ==
    LET user == Authenticate(cred)
    IN  /\ variant = "v1"
        /\ UNCHANGED <<variant, registered, blogsV2, commentsV2, categories, nextId, inflight, served>>
        /\ IF commentId \notin DOMAIN comments
           THEN /\ last' = Response("v1", "deleteComment", user, commentId, 404)
                /\ UNCHANGED <<blogs, comments>>
           ELSE IF user = NoUser
           THEN /\ last' = Response("v1", "deleteComment", user, commentId, 401)
                /\ UNCHANGED <<blogs, comments>>
           ELSE IF comments[commentId].author # user
           THEN /\ last' = Response("v1", "deleteComment", user, commentId, 403)
                /\ UNCHANGED <<blogs, comments>>
           ELSE /\ comments' = Remove(comments, commentId)
                /\ blogs' \in PullFromBlog(blogs, commentId)
                /\ last' = Response("v1", "deleteComment", user, commentId, 200)

----------------------------------------------------------------------------
(* Category routes: src/routes/categoryRoutes.js *)

\* new Category({ name, description, author }): categorySchema has no author
NewCategory(body) == [name |-> body.name, description |-> body.description]

\* the assignments of PATCH /:id
PatchedCategory(category, body) ==
    [category EXCEPT
        !.name = IF body.name # Undefined THEN body.name ELSE @,
        !.description = IF body.description # Undefined THEN body.description ELSE @]

\* category.save(): required name and description, unique index on name
CategorySaves(doc, others) ==
    /\ doc.name # "" /\ doc.description # ""
    /\ \A c \in DOMAIN others : others[c].name # doc.name

CategoryUnchanged ==
    UNCHANGED <<variant, registered, blogs, blogsV2, comments, commentsV2, inflight, served>>

\* POST / : customPassportAuth, isAdmin, validators, category.save()
CreateCategory(cred, body) ==
    LET user == Authenticate(cred)
        id == nextId.category
    IN  /\ variant = "v2"
        /\ CategoryUnchanged
        /\ IF user = NoUser
           THEN /\ last' = Response("v2", "createCategory", user, 0, 401)
                /\ UNCHANGED <<categories, nextId>>
           ELSE IF ~IsAdmin(user)
           THEN /\ last' = Response("v2", "createCategory", user, 0, 403)
                /\ UNCHANGED <<categories, nextId>>
           ELSE IF ~ValidCategoryBody(body)
           THEN /\ last' = Response("v2", "createCategory", user, 0, 400)
                /\ UNCHANGED <<categories, nextId>>
           ELSE IF ~CategorySaves(NewCategory(body), categories)
           THEN /\ last' = Response("v2", "createCategory", user, 0, 500)
                /\ UNCHANGED <<categories, nextId>>
           ELSE /\ id <= MaxCategories
                /\ categories' = categories @@ (id :> NewCategory(body))
                /\ nextId' = [nextId EXCEPT !.category = id + 1]
                /\ last' = Response("v2", "createCategory", user, id, 201)

\* PATCH /:id : the validators are optional(), so an empty name passes them
PatchCategory(cred, id, body) ==
    LET user == Authenticate(cred)
    IN  /\ variant = "v2"
        /\ CategoryUnchanged
        /\ nextId' = nextId
        /\ IF user = NoUser
           THEN last' = Response("v2", "patchCategory", user, id, 401) /\ UNCHANGED categories
           ELSE IF ~IsAdmin(user)
           THEN last' = Response("v2", "patchCategory", user, id, 403) /\ UNCHANGED categories
           ELSE IF id \notin DOMAIN categories
           THEN last' = Response("v2", "patchCategory", user, id, 404) /\ UNCHANGED categories
           ELSE IF ~CategorySaves(PatchedCategory(categories[id], body), Remove(categories, id))
           THEN last' = Response("v2", "patchCategory", user, id, 500) /\ UNCHANGED categories
           ELSE /\ categories' = [categories EXCEPT ![id] = PatchedCategory(@, body)]
                /\ last' = Response("v2", "patchCategory", user, id, 200)

\* DELETE /:id
DeleteCategory(cred, id) ==
    LET user == Authenticate(cred)
    IN  /\ variant = "v2"
        /\ CategoryUnchanged
        /\ nextId' = nextId
        /\ IF user = NoUser
           THEN last' = Response("v2", "deleteCategory", user, id, 401) /\ UNCHANGED categories
           ELSE IF ~IsAdmin(user)
           THEN last' = Response("v2", "deleteCategory", user, id, 403) /\ UNCHANGED categories
           ELSE IF id \notin DOMAIN categories
           THEN last' = Response("v2", "deleteCategory", user, id, 404) /\ UNCHANGED categories
           ELSE /\ categories' = Remove(categories, id)
                /\ last' = Response("v2", "deleteCategory", user, id, 200)

----------------------------------------------------------------------------
(* Read endpoints without authentication: src/routes/blogRoutesV2.js,
   src/routes/commentRoutesV2.js *)

\* a 200 or 404 answer of a read endpoint and the ids of the records in it
ReadResponse(op, id, status, ids) ==
    [api |-> "v2", op |-> op, user |-> NoUser, id |-> id, status |-> status,
     ids |-> ids]

ReadUnchanged ==
    UNCHANGED <<variant, blogs, blogsV2, comments, commentsV2, categories, nextId,
                inflight, served, registered>>

\* the q parameter of a search: none, or a word of a title
SearchWords == {"", "Hello", "World"}

\* the query of GET /search: $or of the $regex on title and content when q is
\* given, and no other condition
SearchFilter(blog, q) == q = "" \/ blog.title = q \/ blog.content = q

\* GET / : BlogV2.find({ isPublished: true })
ListBlogsV2 ==
    /\ variant = "v2"
    /\ ReadUnchanged
    /\ last' = ReadResponse("list", 0, 200,
                   { id \in DOMAIN blogsV2 : blogsV2[id].isPublished })

\* GET /search : BlogV2.find(query), first page
SearchBlogsV2(q) ==
    /\ variant = "v2"
    /\ ReadUnchanged
    /\ last' = ReadResponse("search", 0, 200,
                   { id \in DOMAIN blogsV2 : SearchFilter(blogsV2[id], q) })

\* GET /:id/related : BlogV2.findById, then a find on Blog, a name the module
\* does not define: the ReferenceError goes to next(err)
RelatedBlogsV2(id) ==
    /\ variant = "v2"
    /\ ReadUnchanged
    /\ IF id \notin DOMAIN blogsV2
       THEN last' = ReadResponse("related", id, 404, {})
       ELSE last' = ReadResponse("related", id, 500, {})

\* GET /:blogId/comments : the blogId param callback populates the comments
\* of the blog it finds, the handler answers with them
ListCommentsV2(blogId) ==
    /\ variant = "v2"
    /\ ReadUnchanged
    /\ IF blogId \notin DOMAIN blogsV2
       THEN last' = ReadResponse("listComments", blogId, 404, {})
       ELSE last' = ReadResponse("listComments", blogId, 200,
                       { c \in DOMAIN commentsV2 :
                           \E i \in DOMAIN blogsV2[blogId].comments :
                               blogsV2[blogId].comments[i] = c })

----------------------------------------------------------------------------
(* Earlier revisions of the v1 read handlers: src/routes/blogRoutes.js lines
   403-504, src/routes/commentRoutes.js lines 197-382 *)

\* an answer together with the number of calls of res.send or res.json made
\* while the request was handled
SentResponse(op, id, status, sends) ==
    [api |-> "v1", op |-> op, user |-> NoUser, id |-> id, status |-> status,
     sends |-> sends]

\* the filter { _id: req.params.id, isPublished: true } of the earlier GET /:id
FetchFilterEarlier(blog) == blog.isPublished

\* GET /:id, earlier revision: after res.status(404).send(...) the handler goes
\* on to res.json(blog), which throws because the headers are sent, and the
\* catch block calls res.status(500).send(...)
GetBlogEarlier(id) ==
    /\ V1
    /\ inflight' = inflight
    /\ IF id \in DOMAIN blogs /\ FetchFilterEarlier(blogs[id])
       THEN /\ blogs[id].views < MaxViews
            /\ blogs' = [blogs EXCEPT ![id] = IncViews(@)]
            /\ served' = [served EXCEPT ![id] = @ + 1]
            /\ last' = SentResponse("getEarlier", id, 200, 1)
            /\ UNCHANGED <<blogsV2, nextId>>
       ELSE /\ last' = SentResponse("getEarlier", id, 404, 3)
            /\ UNCHANGED Store

\* Comments.find({ blog: id }): CommentSchema has no blog path, so the filter
\* matches no comment, or every comment when the query layer drops the
\* unknown path
FoundByBlog(cs, blogId) == {{}, DOMAIN cs}

\* GET /:blogId of the earlier comment router: the blogId param callback
\* answers 404 for an empty result and calls next() all the same; the handler
\* then calls res.json(req.comments), which throws, and the error handler
\* calls res.status(...).json(...)
ListCommentsEarlier(blogId) ==
    /\ variant = "v1"
    /\ ReadUnchanged
    /\ \E found \in FoundByBlog(comments, blogId) :
          IF found = {}
          THEN last' = SentResponse("listEarlier", blogId, 404, 3)
          ELSE last' = SentResponse("listEarlier", blogId, 200, 1)

----------------------------------------------------------------------------
(* Authentication middleware: src/middlewares/customPassportAuth.js and the
   JWT strategy of the passport configuration *)

\* the credentials of Creds and a valid token whose user was deleted
AuthCreds == Creds \cup {[kind |-> "valid", user |-> "ghost"]}

\* no info: the verify callback called done(null, false)
NoInfo == [name |-> "undefined", message |-> "undefined"]

\* the info the JWT strategy fails with: the extractor finds no bearer token,
\* the token verification rejects an expired or a malformed token, or the
\* verify callback finds no user for the payload
StrategyInfo(cred) ==
    CASE cred.kind = "absent" -> [name |-> "Error", message |-> "No auth token"]
      [] cred.kind = "expired" -> [name |-> "TokenExpiredError", message |-> "jwt expired"]
      [] cred.kind = "malformed" -> [name |-> "JsonWebTokenError", message |-> "jwt malformed"]
      [] OTHER -> NoInfo

\* the message of the 401 answer
AuthMessage(info) ==
    IF info # NoInfo /\ info.name = "TokenExpiredError"
    THEN "Token expired. Please log in again."
    ELSE IF info # NoInfo
    THEN info.message \o "! Please log in"
    ELSE "Unauthorized access. Please log in."

\* what the middleware did with a request
AuthResponse(cred, user, status, message, passed) ==
    [api |-> "v2", op |-> "auth", user |-> user, id |-> 0, status |-> status,
     kind |-> cred.kind, message |-> message, next |-> passed]

\* customPassportAuth: req.user = user and next() when the strategy resolved
\* a user, a 401 answer with the message of the failure otherwise
CustomPassportAuth(cred) ==
    LET user == Authenticate(cred)
    IN  /\ variant = "v2"
        /\ CategoryUnchanged
        /\ UNCHANGED <<nextId, categories>>
        /\ IF user # NoUser
           THEN last' = AuthResponse(cred, user, 0, "", TRUE)
           ELSE last' = AuthResponse(cred, user, 401, AuthMessage(StrategyInfo(cred)), FALSE)

----------------------------------------------------------------------------
(* Registration: src/routes/authRoutes.js lines 1-169, src/models/users.js *)

RegisterBodies ==
    { [username |-> "carol", email |-> "c@x.io", password |-> "secret1"],
      [username |-> "carol", email |-> "d@x.io", password |-> "secret1"],
      [username |-> "dave", email |-> "C@x.io", password |-> "secret1"],
      [username |-> "dave", email |-> "d+1@x.io", password |-> "secret1"],
      [username |-> "dave", email |-> "d@x.io", password |-> "short"] }

\* validateRegistration: username notEmpty, isEmail (true of every email of
\* RegisterBodies), password isLength({ min: 6 })
ValidRegistration(body) ==
    body.username # "" /\ Len(body.password) >= MinPasswordLen

\* normalizeEmail() of the validator chain, and the lowercase setter of the
\* schema, on the emails of RegisterBodies
NormalizeEmail(email) == IF email = "C@x.io" THEN "c@x.io" ELSE email

\* the validate function of userSchema.email: the regular expression admits
\* no "+" in the local part
SchemaEmailOk(email) == email \in {"c@x.io", "d@x.io"}

\* User.findOne({ $or: [{ email }, { username }] })
ExistingUser(store, username, email) ==
    \E i \in DOMAIN store : store[i].email = email \/ store[i].username = username

\* the unique indexes on username and on email admit the insert
UniqueIndexAllows(store, doc) ==
    \A i \in DOMAIN store :
        store[i].username # doc.username /\ store[i].email # doc.email

RegisterUnchanged ==
    UNCHANGED <<variant, blogs, blogsV2, comments, commentsV2, categories, served>>

\* POST /register up to the answer of findOne
RegisterLoad(body) ==
    LET email == NormalizeEmail(body.email)
    IN  /\ RegisterUnchanged
        /\ registered' = registered
        /\ IF ~ValidRegistration(body)
           THEN /\ last' = Response("v1", "register", NoUser, 0, 400)
                /\ UNCHANGED <<inflight, nextId>>
           ELSE IF ExistingUser(registered, body.username, email)
           THEN /\ last' = Response("v1", "register", NoUser, 0, 409)
                /\ UNCHANGED <<inflight, nextId>>
           ELSE /\ BagCardinality(inflight) < MaxInflight
                /\ nextId.request <= MaxRequests
                /\ inflight' = inflight (+)
                      SetToBag({[op |-> "register", username |-> body.username,
                                 email |-> email, password |-> body.password,
                                 ticket |-> nextId.request]})
                /\ nextId' = [nextId EXCEPT !.request = @ + 1]
                /\ last' = last

\* POST /register from new User(...).save() to the response: schema
\* validation, then the insert under the unique indexes
RegisterSave(r) ==
    LET doc == [username |-> r.username, email |-> NormalizeEmail(r.email),
                password |-> r.password]
    IN  /\ BagIn(r, inflight)
        /\ r.op = "register"
        /\ inflight' = inflight (-) SetToBag({r})
        /\ RegisterUnchanged
        /\ nextId' = nextId
        /\ IF ~SchemaEmailOk(doc.email)
           THEN last' = Response("v1", "register", NoUser, 0, 500)
                /\ registered' = registered
           ELSE IF ~UniqueIndexAllows(registered, doc)
           THEN last' = Response("v1", "register", NoUser, 0, 409)
                /\ registered' = registered
           ELSE /\ Len(registered) < MaxUsers
                /\ registered' = Append(registered, doc)
                /\ last' = Response("v1", "register", NoUser, 0, 201)

\* POST /register, earlier revision, up to `await user.save()`: no lookup
\* before the save and no try around it
RegisterEarlierLoad(body) ==
    /\ RegisterUnchanged
    /\ registered' = registered
    /\ IF ~ValidRegistration(body)
       THEN /\ last' = Response("v1", "registerEarlier", NoUser, 0, 400)
            /\ UNCHANGED <<inflight, nextId>>
       ELSE /\ BagCardinality(inflight) < MaxInflight
            /\ nextId.request <= MaxRequests
            /\ inflight' = inflight (+)
                  SetToBag({[op |-> "registerEarlier", username |-> body.username,
                             email |-> body.email, password |-> body.password,
                             ticket |-> nextId.request, rejected |-> FALSE]})
            /\ nextId' = [nextId EXCEPT !.request = @ + 1]
            /\ last' = last

\* what becomes of a rejected promise of an async handler: the router leaves
\* it unhandled, or passes it to the error handler
RejectionOutcomes == {"unhandled", "forwarded"}

\* POST /register, earlier revision, from the save on: a save that validation
\* or a unique index rejects rejects the handler's promise before res.send
RegisterEarlierSave(r) ==
    LET doc == [username |-> r.username, email |-> NormalizeEmail(r.email),
                password |-> r.password]
    IN  /\ BagIn(r, inflight)
        /\ r.op = "registerEarlier"
        /\ ~r.rejected
        /\ RegisterUnchanged
        /\ nextId' = nextId
        /\ IF SchemaEmailOk(doc.email) /\ UniqueIndexAllows(registered, doc)
           THEN /\ Len(registered) < MaxUsers
                /\ registered' = Append(registered, doc)
                /\ inflight' = inflight (-) SetToBag({r})
                /\ last' = Response("v1", "registerEarlier", NoUser, 0, 200)
           ELSE /\ registered' = registered
                /\ \E outcome \in RejectionOutcomes :
                      IF outcome = "forwarded"
                      THEN /\ inflight' = inflight (-) SetToBag({r})
                           /\ last' = Response("v1", "registerEarlier", NoUser, 0, 500)
                      ELSE /\ inflight' = (inflight (-) SetToBag({r}))
                                            (+) SetToBag({[r EXCEPT !.rejected = TRUE]})
                           /\ last' = last

LoginBodies ==
    { [email |-> "c@x.io", password |-> "secret1"],
      [email |-> "c@x.io", password |-> "letmein"],
      [email |-> "d@x.io", password |-> "secret1"],
      [email |-> "c@x.io", password |-> ""] }

\* validateLogin: isEmail (true of every email of LoginBodies), password
\* notEmpty
ValidLogin(body) == body.password # ""

\* User.findOne({ email }) and user.isValidPassword(password)
ValidCredentials(store, body) ==
    \E i \in DOMAIN store :
        store[i].email = body.email /\ store[i].password = body.password

\* POST /login of either revision: 400, 401, or the token
Login(op, body) ==
    /\ RegisterUnchanged
    /\ UNCHANGED <<registered, inflight, nextId>>
    /\ IF ~ValidLogin(body)
       THEN last' = Response("v1", op, NoUser, 0, 400)
       ELSE IF ~ValidCredentials(registered, body)
       THEN last' = Response("v1", op, NoUser, 0, 401)
       ELSE last' = Response("v1", op, NoUser, 0, 200)

----------------------------------------------------------------------------
(* Specifications *)

InflightRequests == BagToSet(inflight)

\* blog ownership: create, publish, update and delete of both generations
NextOwner ==
    \/ \E cred \in Creds, body \in BlogBodies : CreateBlogV2(cred, body)
    \/ \E cred \in Creds, id \in BlogIds : PublishBlogV2(cred, id)
    \/ \E cred \in Creds, id \in BlogIds, body \in BlogBodies : UpdateBlogV2(cred, id, body)
    \/ \E cred \in Creds, id \in BlogIds : DeleteBlogV2(cred, id)
    \/ \E cred \in Creds, body \in BlogBodies : CreateBlog(cred, body)
    \/ \E cred \in Creds, id \in BlogIds : PublishBlog(cred, id)
    \/ \E cred \in Creds, id \in BlogIds, body \in BlogBodies : UpdateBlog(cred, id, body)
    \/ \E cred \in Creds, id \in BlogIds : DeleteBlog(cred, id)

SpecOwner == Init /\ [][NextOwner]_vars

\* blog ownership and the single-get endpoint
NextRead ==
    \/ NextOwner
    \/ \E id \in BlogIds : GetBlogV2(id)
    \/ \E id \in BlogIds : GetBlog(id)

SpecRead == Init /\ [][NextRead]_vars

\* every blog route of both generations
HelloBody == CHOOSE body \in BlogBodies : body.title = "Hello"

AliceCred == [kind |-> "valid", user |-> "alice"]

\* a reader with an account, an administrator, and a request without a token
ReaderCreds == { cred \in Creds : cred.kind \in {"valid", "absent"} }

BobCred == [kind |-> "valid", user |-> "bob"]

\* one reader, with and without a token
LikerCreds == { cred \in Creds : cred.kind = "absent" } \cup {BobCred}

\* liking and unliking the blogs alice created, and their deletion
NextLike ==
    \/ CreateBlogV2(AliceCred, HelloBody)
    \/ \E id \in BlogIds : DeleteBlogV2(AliceCred, id)
    \/ \E cred \in LikerCreds, id \in BlogIds : LikeLoadV2(cred, id)
    \/ \E r \in InflightRequests : LikeSaveV2(r)
    \/ \E cred \in LikerCreds, id \in BlogIds : UnlikeLoadV2(cred, id)
    \/ \E r \in InflightRequests : UnlikeSaveV2(r)

SpecLike == Init /\ [][NextLike]_vars

\* the two account holders
MemberCreds == {AliceCred, BobCred}

\* the first blog created
FirstBlog == 1

\* alice and bob liking and unliking the first blog
NextUnlike ==
    \/ CreateBlogV2(AliceCred, HelloBody)
    \/ \E cred \in MemberCreds : LikeLoadV2(cred, FirstBlog)
    \/ \E r \in InflightRequests : LikeSaveV2(r)
    \/ \E cred \in MemberCreds : UnlikeLoadV2(cred, FirstBlog)
    \/ \E r \in InflightRequests : UnlikeSaveV2(r)

SpecUnlike == Init /\ [][NextUnlike]_vars

\* the request bodies that pass validation
ValidBodies == { body \in BlogBodies : ValidBlogBodyV2(body) }

\* alice updating her first blog while it is fetched and bob likes it
NextUpdate ==
    \/ CreateBlogV2(AliceCred, HelloBody)
    \/ PublishBlogV2(AliceCred, FirstBlog)
    \/ GetBlogV2(FirstBlog)
    \/ \E body \in ValidBodies : UpdateLoadV2(AliceCred, FirstBlog, body)
    \/ \E r \in InflightRequests : UpdateSaveV2(r)
    \/ LikeLoadV2(BobCred, FirstBlog)
    \/ \E r \in InflightRequests : LikeSaveV2(r)
    \/ CreateBlog(AliceCred, HelloBody)
    \/ PublishBlog(AliceCred, FirstBlog)
    \/ GetBlog(FirstBlog)
    \/ \E body \in ValidBodies : UpdateBlog(AliceCred, FirstBlog, body)

SpecUpdate == Init /\ [][NextUpdate]_vars

\* the comment scenarios: comments are written by alice or without a token,
\* and deleted by any of the ReaderCreds
WriterCreds == { cred \in Creds : cred.kind = "absent" } \cup {AliceCred}

\* the comment and reply requests: without a token and with alice's token on
\* the revision without and with passport.authenticate, and a text that is
\* too short
CommentRequests ==
    { [auth |-> auth, cred |-> cred, body |-> body] :
        auth \in BOOLEAN, cred \in WriterCreds, body \in CommentBodies }
      \ { q \in [auth : BOOLEAN, cred : WriterCreds, body : CommentBodies] :
             ~ValidCommentBodyV2(q.body) /\ ~(q.auth /\ q.cred = AliceCred) }

\* the comment routes of both generations, on blogs alice created, with at
\* most MaxComments comments written
NextComment ==
    \/ CreateBlogV2(AliceCred, HelloBody)
    \/ CreateBlog(AliceCred, HelloBody)
    \/ \E q \in CommentRequests, b \in BlogIds :
          /\ CommentStartV2(q.auth, q.cred, b, q.body)
          /\ nextId'.commentV2 <= MaxComments + 1
    \/ \E r \in InflightRequests : CommentFinishV2(r)
    \/ \E q \in CommentRequests, b \in BlogIds, c \in CommentIds :
          /\ ReplyStartV2(q.auth, q.cred, b, c, q.body)
          /\ nextId'.commentV2 <= MaxComments + 1
    \/ \E r \in InflightRequests : ReplyFinishV2(r)
    \/ \E cred \in ReaderCreds, b \in BlogIds, c \in CommentIds :
          DeleteCommentV2(cred, b, c)
    \/ \E cred \in WriterCreds, b \in BlogIds, body \in CommentBodies :
          CreateComment(cred, b, body)
    \/ \E b \in BlogIds, body \in CommentBodies, author \in {"alice", NoUser} :
          CreateCommentLegacy(b, body, author)
    \/ \E cred \in ReaderCreds, c \in CommentIds : DeleteComment(cred, c)

SpecComment == Init /\ [][NextComment]_vars

\* the comment routes while alice also deletes her blogs
NextThread ==
    \/ NextComment
    \/ \E id \in BlogIds : DeleteBlogV2(AliceCred, id)
    \/ \E id \in BlogIds : DeleteBlog(AliceCred, id)

SpecThread == Init /\ [][NextThread]_vars

ThreadIds == 1..MaxThread

GreatBody == CHOOSE body \in CommentBodies : ValidCommentBodyV2(body)

\* alice's comments and replies on the revision with passport.authenticate,
\* up to MaxThread of them
NextReply ==
    \/ CreateBlogV2(AliceCred, HelloBody)
    \/ \E b \in BlogIds : CommentStartV2(TRUE, AliceCred, b, GreatBody)
    \/ \E r \in InflightRequests : CommentFinishV2(r)
    \/ \E b \in BlogIds, c \in ThreadIds : ReplyStartV2(TRUE, AliceCred, b, c, GreatBody)
    \/ \E r \in InflightRequests : ReplyFinishV2(r)

SpecReply == Init /\ [][NextReply]_vars

\* the category routes
NextCategory ==
    \/ \E cred \in Creds, body \in CategoryBodies : CreateCategory(cred, body)
    \/ \E cred \in Creds, id \in CategoryIds, body \in CategoryBodies :
          PatchCategory(cred, id, body)
    \/ \E cred \in Creds, id \in CategoryIds : DeleteCategory(cred, id)

SpecCategory == Init /\ [][NextCategory]_vars

\* the category routes and the middleware in front of them
NextAuth ==
    \/ NextCategory
    \/ \E cred \in AuthCreds : CustomPassportAuth(cred)

SpecAuth == Init /\ [][NextAuth]_vars

\* alice, an account holder, and bob, the administrator
AdminCreds == {AliceCred, BobCred}

\* categories managed while blogs that name them are created
NextCategoryBlogs ==
    \/ \E body \in ValidBodies : CreateBlogV2(AliceCred, body)
    \/ \E cred \in AdminCreds, body \in CategoryBodies : CreateCategory(cred, body)
    \/ \E cred \in AdminCreds, id \in CategoryIds, body \in CategoryBodies :
          PatchCategory(cred, id, body)
    \/ \E cred \in AdminCreds, id \in CategoryIds : DeleteCategory(cred, id)

SpecCategoryBlogs == Init /\ [][NextCategoryBlogs]_vars

\* alice's blogs, published or not, her comments on them, and the read
\* endpoints that take no credential
NextPublic ==
    \/ \E body \in ValidBodies : CreateBlogV2(AliceCred, body)
    \/ \E id \in BlogIds : PublishBlogV2(AliceCred, id)
    \/ CommentStartV2(TRUE, AliceCred, FirstBlog, GreatBody)
    \/ \E r \in InflightRequests : CommentFinishV2(r)
    \/ \E id \in BlogIds : GetBlogV2(id)
    \/ ListBlogsV2
    \/ \E q \in SearchWords : SearchBlogsV2(q)
    \/ \E id \in BlogIds : RelatedBlogsV2(id)
    \/ \E id \in BlogIds : ListCommentsV2(id)

SpecPublic == Init /\ [][NextPublic]_vars

\* the v1 read handlers of both revisions on alice's blogs and the comments
\* stored by the first comment router
NextEarlier ==
    \/ CreateBlog(AliceCred, HelloBody)
    \/ \E id \in BlogIds : PublishBlog(AliceCred, id)
    \/ \E id \in BlogIds : GetBlog(id)
    \/ \E id \in BlogIds : GetBlogEarlier(id)
    \/ \E b \in BlogIds, body \in CommentBodies, author \in {"alice", NoUser} :
          CreateCommentLegacy(b, body, author)
    \/ \E b \in BlogIds : ListCommentsEarlier(b)

SpecEarlier == Init /\ [][NextEarlier]_vars

\* the register route
NextRegister ==
    \/ \E body \in RegisterBodies : RegisterLoad(body)
    \/ \E r \in InflightRequests : RegisterSave(r)

SpecRegister == Init /\ [][NextRegister]_vars

\* the register and login routes of both revisions
NextAnswer ==
    \/ \E body \in RegisterBodies : RegisterLoad(body)
    \/ \E r \in InflightRequests : RegisterSave(r)
    \/ \E body \in RegisterBodies : RegisterEarlierLoad(body)
    \/ \E r \in InflightRequests : RegisterEarlierSave(r)
    \/ \E body \in LoginBodies : Login("login", body)
    \/ \E body \in LoginBodies : Login("loginEarlier", body)

\* a handler that awaits the store is resumed when the store has answered
AnswerFairness ==
    /\ WF_vars(\E r \in InflightRequests : RegisterSave(r))
    /\ WF_vars(\E r \in InflightRequests : RegisterEarlierSave(r))

SpecAnswer == Init /\ [][NextAnswer]_vars /\ AnswerFairness

----------------------------------------------------------------------------
(* Properties *)

Range(seq) == { seq[i] : i \in DOMAIN seq }

OwnerOps == {"update", "publish", "delete"}

\* the blogs of the generation the behaviour runs
Blogs == IF variant = "v2" THEN blogsV2 ELSE blogs

\* one of the owner-only requests of either generation
OwnerRequest(op, cred, id, body) ==
    \/ op = "update" /\ (UpdateBlogV2(cred, id, body) \/ UpdateBlog(cred, id, body))
    \/ op = "publish" /\ (PublishBlogV2(cred, id) \/ PublishBlog(cred, id))
    \/ op = "delete" /\ (DeleteBlogV2(cred, id) \/ DeleteBlog(cred, id))

\* what an accepted owner-only request leaves behind
OwnerRequestApplied(op, id, body) ==
    \/ op = "update" /\ id \in DOMAIN Blogs' /\ Blogs'[id].title = body.title
                     /\ Blogs'[id].content = body.content
    \/ op = "publish" /\ id \in DOMAIN Blogs' /\ Blogs'[id].isPublished
    \/ op = "delete" /\ id \notin DOMAIN Blogs'

\* C1: an update, publish or delete request on an existing blog by an
\* authenticated principal who is not its author is answered with a client
\* error and leaves both blog collections as they were; the same request by
\* the author is never answered 401 or 403, and with a valid body it is
\* answered 200 and applied.
C1_OwnerOnly ==
    [][\A op \in OwnerOps, cred \in Creds, id \in BlogIds, body \in BlogBodies :
          ( /\ Authenticate(cred) # NoUser
            /\ id \in DOMAIN Blogs
            /\ OwnerRequest(op, cred, id, body) )
          => IF Blogs[id].author # Authenticate(cred)
             THEN /\ last'.op = op /\ last'.status \in {400, 401, 403}
                  /\ blogs' = blogs /\ blogsV2' = blogsV2
             ELSE /\ last'.op = op /\ last'.status \notin {401, 403}
                  /\ (op = "update" => (last'.status = 200 <=>
                         IF variant = "v2" THEN ValidBlogBodyV2(body)
                                           ELSE ValidBlogBody(body)))
                  /\ (op # "update" => last'.status = 200)
                  /\ (last'.status = 200 => OwnerRequestApplied(op, id, body))
      ]_vars

\* a principal other than the author has just been refused on an existing blog
C1_Witness ==
    /\ last.op \in OwnerOps /\ last.user # NoUser /\ last.status \in {401, 403}
    /\ last.id \in DOMAIN Blogs /\ Blogs[last.id].author # last.user
    /\ Blogs[last.id].isPublished

\* C2: a blog that is published stays published as long as it exists, and a
\* blog becomes published only in a step of the publish endpoint.
C2_PublishIsOneWay ==
    [][\A id \in DOMAIN Blogs \cap DOMAIN Blogs' :
          /\ Blogs[id].isPublished => Blogs'[id].isPublished
          /\ (~Blogs[id].isPublished /\ Blogs'[id].isPublished)
                => (last'.op = "publish" /\ last'.status = 200)
      ]_vars

C4_ViewsCountFetches ==
    \A id \in DOMAIN Blogs : Blogs[id].views = served[id]

\* a published blog fetched MaxViews times
C4_Witness ==
    \E id \in DOMAIN Blogs :
        /\ Blogs[id].isPublished /\ served[id] = MaxViews /\ Blogs[id].views = MaxViews
        /\ last.op = "get" /\ last.status = 200

\* C9: an owner-only request without a valid credential is answered 401,
\* and one with a valid credential is never answered 401.
C9_UnauthenticatedVersusForbidden ==
    last.op \in OwnerOps =>
        /\ last.user = NoUser => last.status = 401
        /\ last.user # NoUser => last.status # 401

\* the comment id occurs in a comments list or a replies list
Referenced(c, bs, bsV2, csV2) ==
    \/ \E b \in DOMAIN bs : c \in Range(bs[b].comments)
    \/ \E b \in DOMAIN bsV2 : c \in Range(bsV2[b].comments)
    \/ \E p \in DOMAIN csV2 : c \in Range(csV2[p].replies)

C6_NoDuplicateLikes ==
    \A id \in DOMAIN blogsV2 :
        \A i, j \in DOMAIN blogsV2[id].likes :
            blogsV2[id].likes[i] = blogsV2[id].likes[j] => i = j

\* C7: a Like request that finds its user in the likes it loaded is answered
\* 400 and writes nothing, and the likes a Like request loads are the likes
\* stored when it is received.
C7_AlreadyLiked ==
    [][/\ \A r \in InflightRequests :
             (LikeSaveV2(r) /\ r.user \in Range(r.likes))
             => (last' = Response("v2", "like", r.user, r.id, 400) /\ blogsV2' = blogsV2)
       /\ \A cred \in Creds, id \in BlogIds :
             (LikeLoadV2(cred, id) /\ inflight' # inflight)
             => \E r \in BagToSet(inflight') :
                   /\ CopiesIn(r, inflight') = CopiesIn(r, inflight) + 1
                   /\ r.op = "like" /\ r.user = Authenticate(cred) /\ r.id = id
                   /\ r.likes = blogsV2[id].likes
      ]_vars

\* bob, already in the likes, has just been refused a second Like
C7_Witness ==
    /\ last = Response("v2", "like", "bob", 1, 400)
    /\ 1 \in DOMAIN blogsV2 /\ blogsV2[1].likes = <<"bob">>
    /\ inflight = EmptyBag

\* C8: a request without a valid token to create a comment or a reply on
\* existing records, or to delete an existing comment, is answered 401 and
\* changes no stored record.
C8_MutationsNeedToken ==
    [][\A auth \in BOOLEAN, cred \in Creds, b \in BlogIds, c \in CommentIds,
          body \in CommentBodies :
          ( /\ Authenticate(cred) = NoUser
            /\ \/ b \in DOMAIN blogsV2 /\ CommentStartV2(auth, cred, b, body)
               \/ b \in DOMAIN blogsV2 /\ c \in DOMAIN commentsV2
                    /\ (ReplyStartV2(auth, cred, b, c, body) \/ DeleteCommentV2(cred, b, c))
               \/ b \in DOMAIN blogs /\ CreateComment(cred, b, body)
               \/ c \in DOMAIN comments /\ DeleteComment(cred, c) )
          => /\ last'.status = 401
             /\ UNCHANGED <<blogs, blogsV2, comments, commentsV2, categories>>
      ]_vars

\* C10: the categories change only in a step whose request comes from an
\* administrator, and a category request of an authenticated principal who
\* is no administrator is answered 403.
C10_CategoryAdminOnly ==
    [][/\ categories' # categories
          => (last'.user \in Users /\ UserIsAdmin(last'.user) /\ last'.status \in {200, 201})
       /\ \A cred \in Creds, id \in CategoryIds, body \in CategoryBodies :
             ( /\ Authenticate(cred) \in Users /\ ~UserIsAdmin(Authenticate(cred))
               /\ \/ CreateCategory(cred, body)
                  \/ PatchCategory(cred, id, body)
                  \/ DeleteCategory(cred, id) )
             => (last'.status = 403 /\ categories' = categories)
      ]_vars

\* alice, no administrator, has just been refused the change of an existing
\* category
C10_Witness ==
    /\ last.op \in {"patchCategory", "deleteCategory"} /\ last.user = "alice"
    /\ last.status = 403
    /\ last.id \in DOMAIN categories

\* C11: a comment leaves its collection only in a delete request answered
\* 200 whose principal is an administrator (V2) or the author of the comment
\* (v1); the delete request of any other authenticated principal on an
\* existing comment is answered 403 and changes no collection.
C11_CommentDeleteCapability ==
    [][/\ \A c \in DOMAIN commentsV2 \ DOMAIN commentsV2' :
             /\ last' = Response("v2", "deleteComment", last'.user, c, 200)
             /\ last'.user \in Users /\ UserIsAdmin(last'.user)
       /\ \A c \in DOMAIN comments \ DOMAIN comments' :
             /\ last' = Response("v1", "deleteComment", last'.user, c, 200)
             /\ last'.user \in Users /\ last'.user = comments[c].author
       /\ last'.op = "deleteComment" =>
          \A cred \in Creds, b \in BlogIds, c \in CommentIds :
             ( /\ Authenticate(cred) \in Users
               /\ \/ /\ b \in DOMAIN blogsV2 /\ c \in DOMAIN commentsV2
                     /\ ~UserIsAdmin(Authenticate(cred))
                     /\ DeleteCommentV2(cred, b, c)
                  \/ /\ c \in DOMAIN comments
                     /\ comments[c].author # Authenticate(cred)
                     /\ DeleteComment(cred, c) )
             => /\ last'.status = 403
                /\ UNCHANGED <<blogs, blogsV2, comments, commentsV2>>
      ]_vars

\* alice, no administrator, has just been refused the deletion of a comment
\* that its blog lists
C11_Witness ==
    /\ last.op = "deleteComment" /\ last.api = "v2" /\ last.user = "alice"
    /\ last.status = 403
    /\ last.id \in DOMAIN commentsV2
    /\ \E b \in DOMAIN blogsV2 : last.id \in Range(blogsV2[b].comments)

\* C12: a single-get request is answered 200 exactly when the blog exists and
\* is published, and 404 otherwise.
C12_UnpublishedNotFetchable ==
    [][\A id \in BlogIds :
          (GetBlogV2(id) \/ GetBlog(id))
          => IF id \in DOMAIN Blogs /\ Blogs[id].isPublished
             THEN last'.status = 200
             ELSE last'.status = 404
      ]_vars

\* C13: the views of a blog change only in a single-get step answered 200 on
\* a blog that is published, and then by one; a single-get request on an
\* unpublished blog leaves the views of every blog as they were.
C13_OnlyPublishedFetchCounts ==
    [][/\ \A id \in DOMAIN Blogs \cap DOMAIN Blogs' :
             Blogs'[id].views # Blogs[id].views
             => /\ Blogs[id].isPublished
                /\ last' = Response(variant, "get", NoUser, id, 200)
                /\ Blogs'[id].views = Blogs[id].views + 1
       /\ \A id \in BlogIds :
             ( /\ id \in DOMAIN Blogs => ~Blogs[id].isPublished
               /\ GetBlogV2(id) \/ GetBlog(id) )
             => \A b \in DOMAIN Blogs : b \in DOMAIN Blogs' /\ Blogs'[b].views = Blogs[b].views
      ]_vars

\* C14: when a V2 comment creation on a blog is answered 201 the id of the
\* new comment is in the comments of that blog; when a V2 reply creation on a
\* comment is answered 201 the id of the reply is in the replies of that
\* comment and in the comments of no blog.
C14_CreatedCommentIsAttached ==
    [][\A r \in InflightRequests :
          /\ (last'.status = 201 /\ CommentFinishV2(r))
                => /\ r.id \in DOMAIN blogsV2'
                   /\ r.comment \in Range(blogsV2'[r.id].comments)
          /\ (last'.status = 201 /\ ReplyFinishV2(r))
                => /\ r.id \in DOMAIN commentsV2'
                   /\ r.comment \in Range(commentsV2'[r.id].replies)
                   /\ \A b \in DOMAIN blogsV2' :
                         r.comment \notin Range(blogsV2'[b].comments)
      ]_vars

\* comment 1 is on the blog and the creation of reply 2 to it has just been
\* answered 201
C14_Witness ==
    /\ last = Response("v2", "reply", "alice", 1, 201)
    /\ 1 \in DOMAIN blogsV2 /\ blogsV2[1].comments = <<1>>
    /\ 1 \in DOMAIN commentsV2 /\ commentsV2[1].replies = <<2>>
    /\ 2 \in DOMAIN commentsV2

\* the ids in the comments list of some blog or the replies list of some comment
ReferencedIds(bsV2, csV2) ==
    UNION { Range(bsV2[b].comments) : b \in DOMAIN bsV2 }
      \cup UNION { Range(csV2[p].replies) : p \in DOMAIN csV2 }

Containers(c) ==
    { <<"blog", b>> : b \in { x \in DOMAIN blogsV2 : c \in Range(blogsV2[x].comments) } }
      \cup { <<"comment", p>> : p \in { x \in DOMAIN commentsV2 :
                                           c \in Range(commentsV2[x].replies) } }

\* C16: when no creation is between its two writes, every stored comment is
\* listed by exactly one container, a blog or a parent comment.
C16_ExactlyOneContainer ==
    inflight = EmptyBag =>
        \A c \in DOMAIN commentsV2 : Cardinality(Containers(c)) = 1

\* C17: a stored comment that some comment lists as a reply has no replies
\* of its own.
C17_TwoLevels ==
    \A p \in DOMAIN commentsV2 :
        \A c \in Range(commentsV2[p].replies) \cap DOMAIN commentsV2 :
            commentsV2[c].replies = <<>>

\* C18: when a blog delete request is answered 200, no comment that the
\* blog listed is stored any more.
C18_BlogDeleteCascades ==
    [][(last'.op = "delete" /\ last'.status = 200) =>
          \A cred \in Creds, id \in DOMAIN Blogs :
             (DeleteBlogV2(cred, id) \/ DeleteBlog(cred, id))
             => \A c \in Range(Blogs[id].comments) :
                   c \notin DOMAIN (IF variant = "v2" THEN commentsV2' ELSE comments')
      ]_vars

\* no two documents of the collection share a username or an email
UniqueUsers(store) ==
    \A i, j \in DOMAIN store :
        (store[i].username = store[j].username \/ store[i].email = store[j].email)
        => i = j

\* the username or the normalised email is that of a stored user
Taken(store, username, email) ==
    \/ username \in { store[i].username : i \in DOMAIN store }
    \/ email \in { store[i].email : i \in DOMAIN store }

C20_CreatedBlogIsBlank ==
    [][(last'.op = "create" /\ last'.status = 201) =>
         \A id \in DOMAIN Blogs' \ DOMAIN Blogs :
             LET blog == Blogs'[id]
             IN  /\ blog.author = last'.user
                 /\ blog.views = 0
                 /\ blog.isPublished = FALSE
                 /\ blog.comments = <<>>
                 /\ variant = "v2" =>
                        /\ blog.likes = <<>>
                        /\ blog.categories = {}
                        /\ blog.tags = {}]_vars

\* C20 (amended): a created blog has the authenticated principal as author
\* whatever author, views or isPublished the body carries, views 0,
\* isPublished false and empty comment and like sets; a V2 blog's categories
\* and tags are the ones the request body names.
C20_CreatedBlogDefaults ==
    [][(last'.op = "create" /\ last'.status = 201) =>
         /\ last'.user \in Users
         /\ DOMAIN Blogs' \ DOMAIN Blogs = {last'.id}
         /\ LET blog == Blogs'[last'.id]
            IN  /\ blog.author = last'.user
                /\ blog.views = 0
                /\ blog.isPublished = FALSE
                /\ blog.comments = <<>>
                /\ variant = "v2" =>
                       /\ blog.likes = <<>>
                       /\ \E body \in BlogBodies :
                              /\ ValidBlogBodyV2(body)
                              /\ blog.title = body.title
                              /\ blog.categories = body.categories
                              /\ blog.tags = body.tags]_vars

\* bob has just created a V2 blog from a body that names alice as author, five
\* views, isPublished true, a category and a tag
C20_Witness ==
    /\ last = Response("v2", "create", "bob", 1, 201)
    /\ 1 \in DOMAIN blogsV2
    /\ blogsV2[1].title = "World"
    /\ blogsV2[1].author = "bob"
    /\ blogsV2[1].views = 0
    /\ blogsV2[1].isPublished = FALSE
    /\ blogsV2[1].categories = {1}
    /\ blogsV2[1].tags = {"b"}
    /\ blogsV2[1].comments = <<>>
    /\ blogsV2[1].likes = <<>>


\* C21: an Unlike that runs on the stored likes without interleaving is answered
\* 200; afterwards its user is not in the likes and every other user's likes
\* are kept; when its user was not in the likes the blog is left as it was,
\* so a second Unlike by the same user changes nothing.
C21_UnlikeIdempotent ==
    [][last'.op = "unlike" =>
        \A r \in InflightRequests :
          ( /\ UnlikeSaveV2(r)
            /\ r.id \in DOMAIN blogsV2
            /\ r.likes = blogsV2[r.id].likes
            /\ r.version = blogsV2[r.id].version )
          => /\ last' = Response("v2", "unlike", r.user, r.id, 200)
             /\ ~IsLiked(blogsV2'[r.id].likes, r.user)
             /\ \A u \in Users \ {r.user} :
                   IsLiked(blogsV2'[r.id].likes, u) <=> IsLiked(r.likes, u)
             /\ ~IsLiked(r.likes, r.user) => blogsV2' = blogsV2
             /\ FilterLikes(blogsV2'[r.id].likes, r.user) = blogsV2'[r.id].likes]_vars

\* alice, who is not in the likes, has unliked the blog bob liked: the answer
\* is 200 and bob's like is kept
C21_Witness ==
    /\ last = Response("v2", "unlike", "alice", 1, 200)
    /\ inflight = EmptyBag
    /\ 1 \in DOMAIN blogsV2
    /\ blogsV2[1].likes = <<"bob">>
    /\ blogsV2[1].version = 1


\* C22: a Like or an Unlike answered 200 leaves every other user's membership
\* in the stored likes as it was when the write happened, whatever the request
\* had loaded: a successful Like ends with its user in the likes and undoes
\* nobody's concurrent Unlike, a successful Unlike by a user it found in the
\* likes ends with that user out of them and erases nobody's concurrent Like.
C22_NoLostLikeUpdate ==
    [][(last'.op \in {"like", "unlike"} /\ last'.status = 200) =>
        \A r \in InflightRequests :
          (LikeSaveV2(r) \/ UnlikeSaveV2(r))
          => /\ r.id \in DOMAIN blogsV2 /\ r.id \in DOMAIN blogsV2'
             /\ r.op = "like" => IsLiked(blogsV2'[r.id].likes, r.user)
             /\ (r.op = "unlike" /\ IsLiked(r.likes, r.user))
                   => ~IsLiked(blogsV2'[r.id].likes, r.user)
             /\ \A u \in Users \ {r.user} :
                   IsLiked(blogsV2'[r.id].likes, u)
                       <=> IsLiked(blogsV2[r.id].likes, u)]_vars

\* alice's Like, loaded while bob was in the likes, has been saved after bob's
\* Unlike: three writes have happened, alice is in the likes and bob is not
C22_Witness ==
    /\ last = Response("v2", "like", "alice", 1, 200)
    /\ inflight = EmptyBag
    /\ 1 \in DOMAIN blogsV2
    /\ blogsV2[1].likes = <<"alice">>
    /\ blogsV2[1].version = 3


\* C23 (as stated): an Update answered 200 changes only title, content, tags,
\* categories, SEO fields and image of the stored blog: author, views,
\* comments, likes and the published flag are what the store held when the
\* write happened, so no view increment made since the load is undone.
C23_UpdateChangesOnlyContent ==
    [][(last'.op = "update" /\ last'.status = 200 /\ last'.id \in DOMAIN Blogs) =>
         LET old == Blogs[last'.id]
             new == Blogs'[last'.id]
         IN  /\ new.author = old.author
             /\ new.views = old.views
             /\ new.comments = old.comments
             /\ new.isPublished = old.isPublished
             /\ variant = "v2" => new.likes = old.likes]_vars

\* C23 restricted to the V2 router: the same frame for PUT /api/v2/blogs/:id
C23_UpdateChangesOnlyContentV2 ==
    [][(last'.op = "update" /\ last'.status = 200 /\ variant = "v2"
            /\ last'.id \in DOMAIN blogsV2) =>
         LET old == blogsV2[last'.id]
             new == blogsV2'[last'.id]
         IN  /\ new.author = old.author
             /\ new.views = old.views
             /\ new.comments = old.comments
             /\ new.isPublished = old.isPublished
             /\ new.likes = old.likes]_vars


\* C24: a Publish request by the owner on a blog that is already published is
\* answered 200 and leaves the stored blog, every field of it, as it was.
C24_PublishIdempotent ==
    [][last'.op = "publish" =>
        \A cred \in Creds, id \in BlogIds :
          ( /\ id \in DOMAIN Blogs
            /\ Blogs[id].isPublished
            /\ IsOwner(Blogs[id], Authenticate(cred))
            /\ (PublishBlogV2(cred, id) \/ PublishBlog(cred, id)) )
          => (last'.status = 200 /\ Blogs' = Blogs)]_vars

\* a blog published, fetched MaxViews times and then published again by its
\* owner: the views are still there
C24_Witness ==
    /\ last.api = "v2" /\ last.op = "publish" /\ last.status = 200
    /\ last.id \in DOMAIN blogsV2
    /\ blogsV2[last.id].author = last.user
    /\ blogsV2[last.id].isPublished
    /\ blogsV2[last.id].views = MaxViews


\* the three failure shapes of a credential
FailureShapes == {"expired", "malformed", "absent"}

\* C25: the middleware passes a request on exactly when a user was resolved
\* and answers every other request 401, and two requests failing in different
\* ones of the three shapes (expired, malformed, absent) get different
\* messages.
C25_ThreeMessages ==
    [][last'.op = "auth" =>
         /\ last'.next <=> last'.user \in Users
         /\ ~last'.next => last'.status = 401
         /\ last'.next => last'.status = 0
         /\ ( /\ last.op = "auth"
              /\ last.kind \in FailureShapes /\ last'.kind \in FailureShapes
              /\ last.kind # last'.kind )
            => last.message # last'.message]_vars

\* a request with an expired token has been answered 401 with the message
\* for expired tokens
C25_Witness ==
    /\ last.op = "auth" /\ last.kind = "expired"
    /\ last.status = 401 /\ ~last.next
    /\ last.message = "Token expired. Please log in again."


\* C26: a category delete answered 200 removes that category's record and
\* nothing else: the other categories and every blog, its categories
\* included, are left as they were.
C26_CategoryDeleteDoesNotCascade ==
    [][(last'.op = "deleteCategory" /\ last'.status = 200) =>
        \A cred \in Creds, id \in CategoryIds :
          DeleteCategory(cred, id)
          => /\ IsAdmin(Authenticate(cred))
             /\ DOMAIN categories' = DOMAIN categories \ {id}
             /\ \A c \in DOMAIN categories' : categories'[c] = categories[c]
             /\ blogsV2' = blogsV2 /\ blogs' = blogs]_vars

\* bob has deleted category 1 and a blog still names it
C26_Witness ==
    /\ last = Response("v2", "deleteCategory", "bob", 1, 200)
    /\ 1 \notin DOMAIN categories
    /\ \E id \in DOMAIN blogsV2 : 1 \in blogsV2[id].categories


\* the read endpoints that take no credential
PublicReads == {"list", "search", "related", "listComments", "get"}

\* C27: an answer of a read endpoint that takes no credential carries no
\* unpublished blog and no comments of one, and is the same whether or not an
\* unpublished blog with the requested id exists (404).
C27_PublicReadsShowPublishedOnly ==
    [][(last'.op \in PublicReads /\ last'.api = "v2") =>
         /\ last'.op \in {"list", "search"} =>
               \A id \in last'.ids : blogsV2[id].isPublished
         /\ (last'.op \in {"listComments", "related", "get"}
                /\ last'.id \in DOMAIN blogsV2
                /\ ~blogsV2[last'.id].isPublished)
               => last'.status = 404]_vars


\* C28: a V2 comment creation answered 201 adds the id of its comment to the
\* comments the blog has in the store at that moment and removes none of
\* them, so of two creations that overlap neither overwrites the reference
\* the other one wrote.
C28_ConcurrentCommentsKept ==
    [][(last'.op = "comment" /\ last'.status = 201) =>
        \A r \in InflightRequests :
          CommentFinishV2(r)
          => /\ r.id \in DOMAIN blogsV2 /\ r.id \in DOMAIN blogsV2'
             /\ Range(blogsV2'[r.id].comments)
                   = Range(blogsV2[r.id].comments) \cup {r.comment}
             /\ \A b \in DOMAIN blogsV2 \ {r.id} : blogsV2'[b] = blogsV2[b]]_vars

\* two creations on blog 1 overlapped: comment 2 was persisted after comment 1
\* and referenced before it, and both ids are in the comments
C28_Witness ==
    /\ last = Response("v2", "comment", "alice", 1, 201)
    /\ inflight = EmptyBag
    /\ 1 \in DOMAIN blogsV2 /\ blogsV2[1].comments = <<2, 1>>
    /\ {1, 2} \subseteq DOMAIN commentsV2


\* the calls of a sending method made for the request that was answered last
Sends(response) == IF "sends" \in DOMAIN response THEN response.sends ELSE 1

\* C29: no request has a sending method called more than once: after a 404
\* the handler neither sends again nor passes control to a handler that does.
C29_AtMostOneResponse == Sends(last) <= 1


\* the request numbered t is waiting for its response
Pending(t) == \E r \in InflightRequests : r.ticket = t

\* C30: every register request that reaches the store is eventually
\* answered, whether the save succeeds or fails.
C30_EveryRequestAnswered ==
    \A t \in 1..MaxRequests : Pending(t) ~> ~Pending(t)


\* C30 restricted to the current register route: every request that reaches
\* the store is eventually answered
C30_CurrentRegisterAnswered ==
    \A t \in 1..MaxRequests :
        (\E r \in InflightRequests : r.ticket = t /\ r.op = "register")
            ~> ~Pending(t)

====
